---- MODULE Spec2Model ----
(***************************************************************************)
(* Model of the order book of src/src/orderbook/mod.rs: the two price      *)
(* tables (HashMap<u32, Vec<Order>>), the cached best prices, the trade    *)
(* log, and the three user actions NewOrder, CancelOrder and Flush, each   *)
(* translated from the method that implements it.                          *)
(***************************************************************************)
EXTENDS Integers, Sequences, FiniteSets, TLC

(* ------------------------------ bounds --------------------------------- *)
\* number of user actions explored
MaxSteps == 4

\* the quantities are u32: the model keeps QtyBits bits of them in place of
\* 32, above every sum the small alphabets give
QtyBits == 4
u32_MAX == 2^QtyBits - 1

\* the values the fields of the actions are drawn from
Prices == 1..2
Qtys == 1..2
Users == 1..2
OrderIds == {1}
SideStrings == {"B", "S"}
Tickers == {"IBM"}
\* the symbol the orders carry: not the ticker of the book
Symbols == {"AAPL"}

VARIABLES
    max_bid,        \* OrderBook.max_bid
    min_ask,        \* OrderBook.min_ask
    ticker,         \* OrderBook.ticker
    asks,           \* OrderBook.asks : price -> sequence of orders
    bids,           \* OrderBook.bids : price -> sequence of orders
    trades,         \* OrderBook.trades
    trade_active,   \* OrderBook.trade_active
    aborted,        \* TRUE once an action has panicked instead of returning
    action,         \* the last UserAction handed to new_user_action
    res,            \* the pair returned by the last new_user_action
    steps,          \* number of actions handed to new_user_action so far
    unique_ids      \* TRUE while no NewOrder has carried the (user_id,
                    \* order_id) of an order resting at that moment

vars == <<max_bid, min_ask, ticker, asks, bids, trades, trade_active,
          aborted, action, res, steps, unique_ids>>

\* main.rs: the three tasks around the book
VARIABLES
    lines,          \* the lines of the input file
    read,           \* number of lines produce_input has taken from the file
    produce_pc,     \* produce_input: "running", "finished", "panicked" or
                    \* "panicked_locked" (panicked holding the lock of prod)
    prod,           \* prod: the queue of actions, each with its line number
    process_pc,     \* process: "loop", "push" (holds the lock of prod, the
                    \* response not yet pushed), "finished" or "panicked"
    show_pc,        \* show_results: "loop" or "finished"
    response,       \* process: the local variable response
    resp,           \* resp: the queue of response pairs
    printed,        \* the pairs show_results has printed, in order
    applied         \* line numbers of the actions handed to the book, in order

main_vars == <<lines, read, produce_pc, prod, process_pc, show_pc, response,
               resp, printed, applied>>

all_vars == <<vars, main_vars>>

(* ------------------------------ values --------------------------------- *)
None == [type |-> "None"]

Buy == "Buy"
Sell == "Sell"

\* Side::new
Side_new(s) == IF s = "B" THEN Buy ELSE Sell

\* Side::get_one_letter_string
get_one_letter_string(side) == IF side = Buy THEN "B" ELSE "S"

\* Order::new
Order_new(user_id, price, qty, order_id) ==
    [user_id |-> user_id, price |-> price, qty |-> qty, order_id |-> order_id]

Acknowledge(user_id, order_id) ==
    [type |-> "Acknowledge", user_id |-> user_id, order_id |-> order_id]

Reject(user_id, order_id) ==
    [type |-> "Reject", user_id |-> user_id, order_id |-> order_id]

Best(side, price, qty) ==
    [type |-> "Best", side |-> side, price |-> price, qty |-> qty]

\* Order::best
Order_best(o, side) == Best(IF side = Buy THEN "B" ELSE "S", o.price, o.qty)

\* the Acknowledge built with the two identifiers exchanged
Order_ack_swapped(o) == Acknowledge(o.order_id, o.user_id)

\* Order::ack
Order_ack(o) == Acknowledge(o.user_id, o.order_id)

\* Order::reject
Order_reject(o) == Reject(o.user_id, o.order_id)

\* Trade::new with the two orders taken in the wrong roles
Trade_new_swapped(o1, o2) ==
    [buyer_id |-> o2.user_id, seller_id |-> o1.user_id,
     buyer_order_id |-> o2.order_id, seller_order_id |-> o1.order_id,
     price |-> o1.price, qty |-> o1.qty]

\* Trade::new
Trade_new(o1, o2) ==
    [buyer_id |-> o1.user_id, seller_id |-> o2.user_id,
     buyer_order_id |-> o1.order_id, seller_order_id |-> o2.order_id,
     price |-> o1.price, qty |-> o1.qty]

\* Trade::get_trade_response
get_trade_response(t) ==
    [type |-> "Trade", buyer_id |-> t.buyer_id,
     buyer_order_id |-> t.buyer_order_id, seller_id |-> t.seller_id,
     seller_order_id |-> t.seller_order_id, price |-> t.price, qty |-> t.qty]

(* --------------------------- HashMap / Vec ------------------------------ *)
EmptyMap == [p \in {} |-> <<>>]

\* HashMap::entry(k).or_insert(vec![])
entry_or_insert(col, k) ==
    [p \in (DOMAIN col) \cup {k} |-> IF p \in DOMAIN col THEN col[p] ELSE <<>>]

\* HashMap::remove_entry
remove_entry(col, k) == [p \in (DOMAIN col) \ {k} |-> col[p]]

\* Vec::swap_remove in the place of Vec::remove: the last element takes the
\* place of the removed one
Vec_swap_remove(v, i) ==
    [j \in 1..(Len(v) - 1) |-> IF j = i THEN v[Len(v)] ELSE v[j]]

\* Vec::pop in the place of Vec::remove: the last element goes
Vec_remove_last(v, i) == SubSeq(v, 1, Len(v) - 1)

\* Vec::remove(i), 1-based
Vec_remove(v, i) == [j \in 1..(Len(v) - 1) |-> IF j < i THEN v[j] ELSE v[j + 1]]

\* Iterator::max and Iterator::min over a non-empty set of keys or indices
SetMax(S) == CHOOSE x \in S : \A y \in S : y <= x
SetMin(S) == CHOOSE x \in S : \A y \in S : x <= y

\* col.keys().max().unwrap_or(&0)
keys_max_or_0(col) == IF DOMAIN col = {} THEN 0 ELSE SetMax(DOMAIN col)

\* col.keys().min().unwrap_or(&0)
keys_min_or_0(col) == IF DOMAIN col = {} THEN 0 ELSE SetMin(DOMAIN col)

\* find_map accepting a resting order that is large enough (a partial fill)
find_qty_atleast(val, qty) ==
    IF \E k \in 1..Len(val) : val[k].qty >= qty
    THEN SetMin({k \in 1..Len(val) : val[k].qty >= qty})
    ELSE 0

\* the search returning the last index whose order has quantity qty
find_qty_last(val, qty) ==
    IF \E k \in 1..Len(val) : val[k].qty = qty
    THEN SetMax({k \in 1..Len(val) : val[k].qty = qty})
    ELSE 0

\* val.iter().enumerate().find_map(..): the first index whose order has
\* quantity qty, 0 when there is none
find_qty(val, qty) ==
    IF \E k \in 1..Len(val) : val[k].qty = qty
    THEN SetMin({k \in 1..Len(val) : val[k].qty = qty})
    ELSE 0

\* the fold keeping only the quantity of the order it visits, not the sum
fold_best_last(entry, acc) ==
    IF entry = <<>> THEN acc
    ELSE Best(acc.side, entry[Len(entry)].price, entry[Len(entry)].qty)

\* entry.iter().fold(Best{side, 0, 0}, ..): price of the last order and the
\* sum of the quantities
\* sum of the quantities, qty + o.qty being the addition of u32 as a build
\* without overflow checks computes it
RECURSIVE fold_best(_, _)
fold_best(entry, acc) ==
    IF entry = <<>> THEN acc
    ELSE fold_best(Tail(entry),
                   Best(acc.side, Head(entry).price,
                        (acc.qty + Head(entry).qty) % (u32_MAX + 1)))

\* an addition of the fold overflows u32: the quantities sum above u32::MAX
RECURSIVE fold_sum(_)
fold_sum(entry) ==
    IF entry = <<>> THEN 0 ELSE Head(entry).qty + fold_sum(Tail(entry))

fold_overflows(entry) == fold_sum(entry) > u32_MAX

\* the two closures handed to the wrong sides
f_swapped(side, a, b) == IF side = Buy THEN a <= b ELSE a >= b

\* the closure with strict comparisons
f_strict(side, a, b) == IF side = Buy THEN a > b ELSE a < b

\* the closure new_order passes as f: |a, b| a >= b for Buy, a <= b for Sell
f(side, a, b) == IF side = Buy THEN a >= b ELSE a <= b

(* --------------------------- new_order_logic ---------------------------- *)
\* Result: the two collections, the trade log, the two cached bests and the
\* returned pair.
new_order_logic(col_insert, col_search, trds, best, best_opposite, order, side, active) ==
    LET price == order.price
        ins == entry_or_insert(col_insert, price)
        unchanged == [col_insert |-> ins, col_search |-> col_search,
                      trades |-> trds, best |-> best,
                      best_opposite |-> best_opposite, res |-> <<None, None>>,
                      overflow |-> FALSE]
    IN
    IF f(side, price, best_opposite) /\ DOMAIN col_search # {}
    THEN IF active
         THEN IF price \in DOMAIN col_search
              THEN LET val == col_search[price]
                       k == find_qty(val, order.qty)
                   IN IF k # 0
                      THEN LET trade == IF side = Buy
                                        THEN Trade_new(order, val[k])
                                        ELSE Trade_new(val[k], order)
                               val2 == Vec_remove(val, k)
                               srch == IF val2 = <<>>
                                       THEN remove_entry(col_search, price)
                                       ELSE [col_search EXCEPT ![price] = val2]
                               bo == IF val2 = <<>>
                                     THEN IF side = Buy
                                          THEN keys_min_or_0(srch)
                                          ELSE keys_max_or_0(srch)
                                     ELSE best_opposite
                           IN [unchanged EXCEPT
                                 !.col_search = srch,
                                 !.trades = Append(trds, trade),
                                 !.best_opposite = bo,
                                 !.res = <<Order_ack(order),
                                           get_trade_response(trade)>>]
                      ELSE [unchanged EXCEPT !.res = <<Order_reject(order), None>>]
              ELSE unchanged
         ELSE [unchanged EXCEPT !.res = <<Order_reject(order), None>>]
    ELSE IF f(side, price, best) \/ best = 0
         THEN LET entry == Append(ins[price], order)
              IN [unchanged EXCEPT
                    !.col_insert = [ins EXCEPT ![price] = entry],
                    !.best = price,
                    !.res = <<Order_ack(order),
                              fold_best(entry,
                                        Best(get_one_letter_string(side), 0, 0))>>,
                    !.overflow = fold_overflows(entry)]
         ELSE [unchanged EXCEPT
                 !.col_insert = [ins EXCEPT ![price] = Append(ins[price], order)],
                 !.res = <<Order_ack(order), None>>]

\* new_order that hands new_order_logic a trade_active of true
new_order_always_active(side, order) ==
    IF side = Buy
    THEN LET r == new_order_logic(bids, asks, trades, max_bid, min_ask,
                                  order, Buy, TRUE)
         IN [bids |-> r.col_insert, asks |-> r.col_search, trades |-> r.trades,
             max_bid |-> r.best, min_ask |-> r.best_opposite, res |-> r.res,
             overflow |-> r.overflow]
    ELSE LET r == new_order_logic(asks, bids, trades, min_ask, max_bid,
                                  order, Sell, TRUE)
         IN [asks |-> r.col_insert, bids |-> r.col_search, trades |-> r.trades,
             min_ask |-> r.best, max_bid |-> r.best_opposite, res |-> r.res,
             overflow |-> r.overflow]

\* OrderBook::new_order: the book after the order, as a record
new_order(side, order) ==
    IF side = Buy
    THEN LET r == new_order_logic(bids, asks, trades, max_bid, min_ask,
                                  order, Buy, trade_active)
         IN [bids |-> r.col_insert, asks |-> r.col_search, trades |-> r.trades,
             max_bid |-> r.best, min_ask |-> r.best_opposite, res |-> r.res,
             overflow |-> r.overflow]
    ELSE LET r == new_order_logic(asks, bids, trades, min_ask, max_bid,
                                  order, Sell, trade_active)
         IN [asks |-> r.col_insert, bids |-> r.col_search, trades |-> r.trades,
             min_ask |-> r.best, max_bid |-> r.best_opposite, res |-> r.res,
             overflow |-> r.overflow]

(* ------------------------------ cancel ---------------------------------- *)
NoHit == <<0, 0>>

\* get_order_index comparing the order_id only
get_order_index_any_user(col, user_id, order_id) ==
    LET Match(k) == {i \in 1..Len(col[k]) : col[k][i].order_id = order_id}
        hits == {<<k, SetMin(Match(k))>> : k \in {q \in DOMAIN col : Match(q) # {}}}
    IN IF hits = {} THEN {NoHit} ELSE hits

\* OrderBook::get_order_index.  The HashMap is iterated in an unspecified
\* order and the scan stops at the first bucket holding a match, so every
\* bucket with a match is a possible result; inside the bucket the first
\* matching index is taken.  {NoHit} stands for None.
get_order_index(col, user_id, order_id) ==
    LET Match(k) == {i \in 1..Len(col[k]) :
                        col[k][i].user_id = user_id /\ col[k][i].order_id = order_id}
        hits == {<<k, SetMin(Match(k))>> : k \in {q \in DOMAIN col : Match(q) # {}}}
    IN IF hits = {} THEN {NoHit} ELSE hits

\* cancel_order_logic without the comparison of the price with the cached
\* best: every cancel answers as a cancel at the best
cancel_order_logic_best_unchecked(col, side, user_id, order_id, best, hit) ==
    LET price == hit[1]
        ack == Acknowledge(user_id, order_id)
    IN
    IF hit # NoHit
    THEN IF Len(col[price]) = 1
         THEN LET col2 == remove_entry(col, price)
              IN IF DOMAIN col2 # {}
                 THEN LET k == IF side = Buy THEN SetMax(DOMAIN col2)
                                             ELSE SetMin(DOMAIN col2)
                      IN IF col2[k] = <<>>
                         THEN [col |-> col2, best |-> k,
                               res |-> <<None, None>>, panic |-> TRUE]
                         ELSE [col |-> col2, best |-> k,
                               res |-> <<ack, Order_best(col2[k][1], side)>>,
                               panic |-> FALSE]
                 ELSE [col |-> col2, best |-> 0,
                       res |-> <<ack, Best(get_one_letter_string(side), 0, 0)>>,
                       panic |-> FALSE]
         ELSE LET col2 == [col EXCEPT ![price] = Vec_remove(col[price], hit[2])]
              IN [col |-> col2, best |-> best,
                  res |-> <<ack, Order_best(col2[price][1], side)>>,
                  panic |-> FALSE]
    ELSE [col |-> col, best |-> best,
          res |-> <<Reject(user_id, order_id), None>>, panic |-> FALSE]

\* OrderBook::cancel_order_logic, for the result hit of get_order_index.
\* panic is TRUE when the indexing [0] of an empty Vec aborts the call.
cancel_order_logic(col, side, user_id, order_id, best, hit) ==
    LET price == hit[1]
        order_idx == hit[2]
        ack == Acknowledge(user_id, order_id)
    IN
    IF hit # NoHit
    THEN LET v == col[price]
         IN IF Len(v) = 1
            THEN LET col2 == remove_entry(col, price)
                 IN IF price = best
                    THEN IF DOMAIN col2 # {}
                         THEN LET k == IF side = Buy THEN SetMax(DOMAIN col2)
                                                     ELSE SetMin(DOMAIN col2)
                              IN IF col2[k] = <<>>
                                 THEN [col |-> col2, best |-> k,
                                       res |-> <<None, None>>, panic |-> TRUE]
                                 ELSE [col |-> col2, best |-> k,
                                       res |-> <<ack, Order_best(col2[k][1], side)>>,
                                       panic |-> FALSE]
                         ELSE [col |-> col2, best |-> 0,
                               res |-> <<ack, Best(get_one_letter_string(side), 0, 0)>>,
                               panic |-> FALSE]
                    ELSE [col |-> col2, best |-> best,
                          res |-> <<ack, None>>, panic |-> FALSE]
            ELSE LET col2 == [col EXCEPT ![price] = Vec_remove(v, order_idx)]
                 IN IF price = best
                    THEN [col |-> col2, best |-> best,
                          res |-> <<ack, Order_best(col2[price][1], side)>>,
                          panic |-> FALSE]
                    ELSE [col |-> col2, best |-> best,
                          res |-> <<ack, None>>, panic |-> FALSE]
    ELSE [col |-> col, best |-> best,
          res |-> <<Reject(user_id, order_id), None>>, panic |-> FALSE]

\* OrderBook::cancel_order: asks first, bids when the asks did not acknowledge
cancel_order(user_id, order_id, hit_asks, hit_bids) ==
    LET a == cancel_order_logic(asks, Sell, user_id, order_id, min_ask, hit_asks)
        b == cancel_order_logic(bids, Buy, user_id, order_id, max_bid, hit_bids)
    IN IF a.panic \/ a.res[1].type = "Acknowledge"
       THEN [asks |-> a.col, min_ask |-> a.best, bids |-> bids,
             max_bid |-> max_bid, res |-> a.res, panic |-> a.panic]
       ELSE [asks |-> a.col, min_ask |-> a.best, bids |-> b.col,
             max_bid |-> b.best, res |-> b.res, panic |-> b.panic]

(* ------------------------------ actions --------------------------------- *)
\* the (user_id, order_id) pairs of the orders held by a table
Ids(col) ==
    UNION {{<<col[p][i].user_id, col[p][i].order_id>> : i \in 1..Len(col[p])} :
              p \in DOMAIN col}

\* OrderBook::new
OrderBook_new ==
    /\ max_bid = 0
    /\ min_ask = 0
    /\ ticker \in Tickers
    /\ asks = EmptyMap
    /\ bids = EmptyMap
    /\ trades = <<>>
    /\ trade_active \in BOOLEAN
    /\ aborted = FALSE
    /\ action = [type |-> "None"]
    /\ res = <<None, None>>
    /\ steps = 0
    /\ unique_ids = TRUE

\* the book used on its own: no file, no task
NoMain ==
    /\ lines = <<>>
    /\ read = 0
    /\ produce_pc = "running"
    /\ prod = <<>>
    /\ process_pc = "loop"
    /\ show_pc = "loop"
    /\ response = None
    /\ resp = <<>>
    /\ printed = <<>>
    /\ applied = <<>>

Init == OrderBook_new /\ NoMain

\* a NewOrder that takes the symbol of the order as the ticker of the book
NewOrder_takes_symbol(user_id, symbol, price, qty, side, order_id) ==
    /\ ~aborted
    /\ steps < MaxSteps
    /\ steps' = steps + 1
    /\ LET r == new_order(Side_new(side), Order_new(user_id, price, qty, order_id))
       IN \E panic \in (IF r.overflow THEN BOOLEAN ELSE {FALSE}) :
            /\ bids' = r.bids
            /\ asks' = r.asks
            /\ trades' = r.trades
            /\ max_bid' = r.max_bid
            /\ min_ask' = r.min_ask
            /\ res' = IF panic THEN <<None, None>> ELSE r.res
            /\ aborted' = panic
    /\ action' = [type |-> "NewOrder", user_id |-> user_id, price |-> price,
                  qty |-> qty, side |-> side, order_id |-> order_id]
    /\ unique_ids' = (unique_ids /\ <<user_id, order_id>> \notin Ids(bids) \cup Ids(asks))
    /\ ticker' = symbol
    /\ UNCHANGED trade_active

\* new_user_action(UserAction::NewOrder{..}); the symbol is not used (symbol: _)
NewOrder(user_id, symbol, price, qty, side, order_id) ==
    /\ ~aborted
    /\ steps < MaxSteps
    /\ steps' = steps + 1
    /\ LET r == new_order(Side_new(side), Order_new(user_id, price, qty, order_id))
       IN \E panic \in (IF r.overflow THEN BOOLEAN ELSE {FALSE}) :
            /\ bids' = r.bids
            /\ asks' = r.asks
            /\ trades' = r.trades
            /\ max_bid' = r.max_bid
            /\ min_ask' = r.min_ask
            /\ res' = IF panic THEN <<None, None>> ELSE r.res
            /\ aborted' = panic
    /\ action' = [type |-> "NewOrder", user_id |-> user_id, price |-> price,
                  qty |-> qty, side |-> side, order_id |-> order_id]
    /\ unique_ids' = (unique_ids /\ <<user_id, order_id>> \notin Ids(bids) \cup Ids(asks))
    /\ UNCHANGED <<ticker, trade_active>>

\* new_user_action(UserAction::CancelOrder{..})
CancelOrder(user_id, order_id) ==
    /\ ~aborted
    /\ steps < MaxSteps
    /\ steps' = steps + 1
    /\ \E ha \in get_order_index(asks, user_id, order_id),
          hb \in get_order_index(bids, user_id, order_id) :
          LET r == cancel_order(user_id, order_id, ha, hb)
          IN /\ bids' = r.bids
             /\ asks' = r.asks
             /\ max_bid' = r.max_bid
             /\ min_ask' = r.min_ask
             /\ res' = r.res
             /\ aborted' = r.panic
    /\ action' = [type |-> "CancelOrder", user_id |-> user_id, order_id |-> order_id]
    /\ UNCHANGED <<ticker, trades, trade_active, unique_ids>>

\* flush that also clears the trade log
Flush_clears_trades ==
    /\ ~aborted
    /\ steps < MaxSteps
    /\ steps' = steps + 1
    /\ max_bid' = 0
    /\ min_ask' = 0
    /\ ticker' = ""
    /\ asks' = EmptyMap
    /\ bids' = EmptyMap
    /\ trades' = <<>>
    /\ res' = <<None, None>>
    /\ action' = [type |-> "Flush"]
    /\ UNCHANGED <<trade_active, aborted, unique_ids>>

\* flush without self.ticker.clear()
Flush_keeps_ticker ==
    /\ ~aborted
    /\ steps < MaxSteps
    /\ steps' = steps + 1
    /\ max_bid' = 0
    /\ min_ask' = 0
    /\ asks' = EmptyMap
    /\ bids' = EmptyMap
    /\ res' = <<None, None>>
    /\ action' = [type |-> "Flush"]
    /\ UNCHANGED <<ticker, trades, trade_active, aborted, unique_ids>>

\* flush without self.max_bid = 0 and self.min_ask = 0
Flush_keeps_best ==
    /\ ~aborted
    /\ steps < MaxSteps
    /\ steps' = steps + 1
    /\ ticker' = ""
    /\ asks' = EmptyMap
    /\ bids' = EmptyMap
    /\ res' = <<None, None>>
    /\ action' = [type |-> "Flush"]
    /\ UNCHANGED <<max_bid, min_ask, trades, trade_active, aborted, unique_ids>>

\* OrderBook::flush and new_user_action(UserAction::Flush)
Flush ==
    /\ ~aborted
    /\ steps < MaxSteps
    /\ steps' = steps + 1
    /\ max_bid' = 0
    /\ min_ask' = 0
    /\ ticker' = ""
    /\ asks' = EmptyMap
    /\ bids' = EmptyMap
    /\ res' = <<None, None>>
    /\ action' = [type |-> "Flush"]
    /\ UNCHANGED <<trades, trade_active, aborted, unique_ids>>

\* OrderBook::new_user_action
new_user_action ==
    \/ \E user_id \in Users, symbol \in Symbols, price \in Prices, qty \in Qtys,
          side \in SideStrings, order_id \in OrderIds :
          NewOrder(user_id, symbol, price, qty, side, order_id)
    \/ \E user_id \in Users, order_id \in OrderIds : CancelOrder(user_id, order_id)
    \/ Flush

Next == new_user_action /\ UNCHANGED main_vars

Spec == Init /\ [][Next]_vars

\* the same book driven by three users, so that three orders with distinct
\* identifiers can rest together
UsersWide == 1..3

new_user_action_wide ==
    \/ \E user_id \in UsersWide, symbol \in Symbols, price \in Prices,
          qty \in Qtys, side \in SideStrings, order_id \in OrderIds :
          NewOrder(user_id, symbol, price, qty, side, order_id)
    \/ \E user_id \in UsersWide, order_id \in OrderIds : CancelOrder(user_id, order_id)
    \/ Flush

NextWide == new_user_action_wide /\ UNCHANGED main_vars

SpecWide == Init /\ [][NextWide]_vars

\* the same book fed orders whose price or quantity may be 0: the fields
\* are u32 and new_user_action hands them to new_order as they come
PricesZero == 0..1
QtysZero == 0..1

new_user_action_zero ==
    \/ \E user_id \in Users, symbol \in Symbols, price \in PricesZero,
          qty \in QtysZero, side \in SideStrings, order_id \in OrderIds :
          NewOrder(user_id, symbol, price, qty, side, order_id)
    \/ \E user_id \in Users, order_id \in OrderIds : CancelOrder(user_id, order_id)
    \/ Flush

NextZero == new_user_action_zero /\ UNCHANGED main_vars

SpecZero == Init /\ [][NextZero]_vars

\* the same book with trading on, fed the orders of three users at a single
\* price: buckets in which several orders wait for a match
PricesOne == {1}

InitTrading == Init /\ trade_active

new_user_action_one_price ==
    \/ \E user_id \in UsersWide, symbol \in Symbols, price \in PricesOne,
          qty \in Qtys, side \in SideStrings, order_id \in OrderIds :
          NewOrder(user_id, symbol, price, qty, side, order_id)
    \/ \E user_id \in UsersWide, order_id \in OrderIds : CancelOrder(user_id, order_id)
    \/ Flush

NextOnePrice == new_user_action_one_price /\ UNCHANGED main_vars

SpecOnePrice == InitTrading /\ [][NextOnePrice]_vars

\* the same book fed orders whose quantity may be half the range of u32
QtysBig == {1, 2^(QtyBits - 1)}

new_user_action_big ==
    \/ \E user_id \in Users, symbol \in Symbols, price \in Prices,
          qty \in QtysBig, side \in SideStrings, order_id \in OrderIds :
          NewOrder(user_id, symbol, price, qty, side, order_id)
    \/ \E user_id \in Users, order_id \in OrderIds : CancelOrder(user_id, order_id)
    \/ Flush

NextBig == new_user_action_big /\ UNCHANGED main_vars

SpecBig == Init /\ [][NextBig]_vars

(* ------------------------------ main.rs -------------------------------- *)
\* the lines an input file is made of: three orders, a cancel, a flush, a
\* line that starts with N without the fields of an order, a line with the
\* shape of an order whose user_id is a number above u32::MAX, and a line
\* that starts with none of N, C, F
InputLines ==
    {[kind |-> "N", user_id |-> 1, symbol |-> "IBM", price |-> 1, qty |-> 1,
      side |-> "B", order_id |-> 1],
     [kind |-> "N", user_id |-> 3, symbol |-> "IBM", price |-> 1, qty |-> 1,
      side |-> "S", order_id |-> 1],
     [kind |-> "N", user_id |-> 2, symbol |-> "IBM", price |-> 2, qty |-> 1,
      side |-> "S", order_id |-> 1],
     [kind |-> "C", user_id |-> 2, order_id |-> 1],
     [kind |-> "F"],
     [kind |-> "N_malformed"],
     [kind |-> "N_overflow"],
     [kind |-> "other"]}

\* main: the three queues empty, the tasks spawned; process builds its book
\* with OrderBook::new("IBM", false)
InitMain ==
    /\ OrderBook_new
    /\ trade_active = FALSE
    /\ lines \in [1..MaxSteps -> InputLines]
    /\ read = 0
    /\ produce_pc = "running"
    /\ prod = <<>>
    /\ process_pc = "loop"
    /\ show_pc = "loop"
    /\ response = None
    /\ resp = <<>>
    /\ printed = <<>>
    /\ applied = <<>>

\* the lock of prod is poisoned: a task panicked holding it
prod_poisoned == process_pc = "panicked" \/ produce_pc = "panicked_locked"

\* produce_input, one turn of the loop over the lines, and the return once
\* the lines are exhausted: the captures of a line that starts with N are
\* unwrapped before the queue is locked; the fields are parsed with the
\* queue locked, the guard being the receiver of push; the lock of prod is
\* that of process while process holds an action, and it is poisoned once
\* process has panicked holding it
produce_input ==
    /\ produce_pc = "running"
    /\ IF read = Len(lines)
       THEN /\ produce_pc' = "finished"
            /\ UNCHANGED <<read, prod>>
       ELSE LET line == lines[read + 1]
            IN IF line.kind = "N_malformed"
               THEN /\ produce_pc' = "panicked"
                    /\ UNCHANGED <<read, prod>>
               ELSE IF line.kind = "other"
               THEN /\ read' = read + 1
                    /\ UNCHANGED <<produce_pc, prod>>
               ELSE IF prod_poisoned
               THEN /\ produce_pc' = "panicked"
                    /\ UNCHANGED <<read, prod>>
               ELSE IF line.kind = "N_overflow"
               THEN /\ process_pc # "push"
                    /\ produce_pc' = "panicked_locked"
                    /\ UNCHANGED <<read, prod>>
               ELSE /\ process_pc # "push"
                    /\ read' = read + 1
                    /\ prod' = Append(prod, [line |-> read + 1, action |-> line])
                    /\ UNCHANGED produce_pc
    /\ UNCHANGED <<lines, process_pc, show_pc, response, resp, printed, applied>>
    /\ UNCHANGED vars

\* entry.new_user_action(action) for an action of the queue
apply_action(a) ==
    IF a.kind = "N"
    THEN NewOrder(a.user_id, a.symbol, a.price, a.qty, a.side, a.order_id)
    ELSE IF a.kind = "C"
    THEN CancelOrder(a.user_id, a.order_id)
    ELSE Flush

\* process, the first half of a turn of its loop: the queue is locked, its
\* lock not poisoned, its first action removed and handed to the book
process_remove ==
    /\ process_pc = "loop"
    /\ ~prod_poisoned
    /\ prod # <<>>
    /\ prod' = Tail(prod)
    /\ apply_action(Head(prod).action)
    /\ applied' = Append(applied, Head(prod).line)
    /\ IF aborted'
       THEN process_pc' = "panicked" /\ response' = None
       ELSE /\ process_pc' = "push"
            /\ response' = [line |-> Head(prod).line, pair |-> res']
    /\ UNCHANGED <<lines, read, produce_pc, show_pc, resp, printed>>

\* process, the second half: the response is pushed and the locks released
process_push ==
    /\ process_pc = "push"
    /\ resp' = Append(resp, response)
    /\ response' = None
    /\ process_pc' = "loop"
    /\ UNCHANGED <<lines, read, produce_pc, prod, show_pc, printed, applied>>
    /\ UNCHANGED vars

\* process, the head of its loop when the lock of prod is poisoned: the
\* pattern Ok(v) fails, the loop is left and the task returns
process_exit ==
    /\ process_pc = "loop"
    /\ prod_poisoned
    /\ process_pc' = "finished"
    /\ UNCHANGED <<lines, read, produce_pc, prod, show_pc, response, resp,
                   printed, applied>>
    /\ UNCHANGED vars

\* show_results, one turn of its loop with a response in the queue; no task
\* holds the lock of resp where it can panic, so the loop is never left
show_results ==
    /\ show_pc = "loop"
    /\ resp # <<>>
    /\ printed' = Append(printed, Head(resp))
    /\ resp' = Tail(resp)
    /\ UNCHANGED <<lines, read, produce_pc, prod, process_pc, show_pc, response,
                   applied>>
    /\ UNCHANGED vars

NextMain ==
    \/ produce_input
    \/ process_remove
    \/ process_push
    \/ process_exit
    \/ show_results

SpecMain == InitMain /\ [][NextMain]_all_vars

\* the three tasks are spawned on the multi-threaded runtime and none of
\* them awaits: each keeps a worker thread and takes its next step whenever
\* that step stays possible
SpecMainFair ==
    /\ InitMain
    /\ [][NextMain]_all_vars
    /\ WF_all_vars(produce_input)
    /\ WF_all_vars(process_remove)
    /\ WF_all_vars(process_push)
    /\ WF_all_vars(process_exit)
    /\ WF_all_vars(show_results)

(* ------------------------- reading the state --------------------------- *)
\* the table holds at least one order
HasOrders(col) == \E p \in DOMAIN col : col[p] # <<>>

\* the buckets of the table that hold orders
Resting(col) == [p \in {q \in DOMAIN col : col[q] # <<>>} |-> col[p]]

\* the last completed action was of type t
Did(t) == ~aborted /\ action.type = t

\* this step is an action of type t that returns
Returns(t) == steps' = steps + 1 /\ action'.type = t /\ ~aborted'

\* the order carried by the NewOrder of this step, and the tables and cached
\* bests of its own and of the opposite side, before and after the step
Incoming == Order_new(action'.user_id, action'.price, action'.qty, action'.order_id)
OwnBefore == IF action'.side = "B" THEN bids ELSE asks
OwnAfter == IF action'.side = "B" THEN bids' ELSE asks'
OppBefore == IF action'.side = "B" THEN asks ELSE bids
OppAfter == IF action'.side = "B" THEN asks' ELSE bids'
CrossesCached ==
    \/ action'.side = "B" /\ action'.price >= min_ask
    \/ action'.side = "S" /\ action'.price <= max_bid

\* the same for the NewOrder the state records as its last action
LastOpp == IF action.side = "B" THEN asks ELSE bids

(* ------------------------------- claims --------------------------------- *)

\* The counterexamples below are stated for the action sequences the input
\* contract allows: those in which no NewOrder carries the identity of an
\* order that is resting (unique_ids).

\* C1: after every action, every price key of the bids table and of the
\* asks table maps to a bucket holding at least one order.
C1_NoEmptyBuckets ==
    (unique_ids /\ ~aborted) => /\ \A p \in DOMAIN bids : bids[p] # <<>>
                /\ \A p \in DOMAIN asks : asks[p] # <<>>

\* C2: after every action, max_bid is the largest key of the bids table (0
\* when the table has no key) and min_ask is the smallest key of the asks
\* table (0 when the table has no key).
C2_CachedBestIsExtremeKey ==
    (unique_ids /\ ~aborted) =>
        /\ max_bid = (IF DOMAIN bids = {} THEN 0
                      ELSE CHOOSE x \in DOMAIN bids : \A y \in DOMAIN bids : y <= x)
        /\ min_ask = (IF DOMAIN asks = {} THEN 0
                      ELSE CHOOSE x \in DOMAIN asks : \A y \in DOMAIN asks : x <= y)

\* C3: after every action, when both side tables are non-empty the cached
\* max_bid is strictly less than the cached min_ask.
C3_NonCrossingAtRest ==
    (unique_ids /\ ~aborted /\ DOMAIN bids # {} /\ DOMAIN asks # {})
        => max_bid < min_ask

\* C4: new_user_action returns normally for every action: no action aborts
\* the engine.
C4_NeverAborts == unique_ids => ~aborted

\* C5: every NewOrder and every CancelOrder returns a pair whose primary
\* slot is an Acknowledge or a Reject; Flush returns both slots absent.
C5_PrimaryPresent ==
    unique_ids =>
        /\ (Did("NewOrder") \/ Did("CancelOrder"))
              => res[1].type \in {"Acknowledge", "Reject"}
        /\ Did("Flush") => res = <<None, None>>

\* C6: with trade_active false, a NewOrder whose price crosses the cached
\* opposite best while the opposite side holds resting orders returns
\* (Reject, no secondary) and the order does not rest.
C6_RejectWhenTradingOff ==
    [][(Returns("NewOrder") /\ ~trade_active /\ CrossesCached /\ HasOrders(OppBefore))
         => /\ res' = <<Reject(action'.user_id, action'.order_id), None>>
            /\ Resting(bids') = Resting(bids)
            /\ Resting(asks') = Resting(asks)]_vars

C6_Witness ==
    /\ unique_ids /\ Did("NewOrder") /\ ~trade_active
    /\ res = <<Reject(action.user_id, action.order_id), None>>
    /\ HasOrders(LastOpp)
    /\ \/ action.side = "B" /\ action.price >= min_ask
       \/ action.side = "S" /\ action.price <= max_bid

\* C7: a NewOrder that arrives while the opposite side holds no resting
\* order is acknowledged and rests on its own side.
C7_NoCrossOnEmptyOpposite ==
    [][(Returns("NewOrder") /\ unique_ids' /\ ~HasOrders(OppBefore))
         => /\ res'[1] = Acknowledge(action'.user_id, action'.order_id)
            /\ action'.price \in DOMAIN OwnAfter
            /\ OwnAfter[action'.price]
                 = (IF action'.price \in DOMAIN OwnBefore
                    THEN OwnBefore[action'.price] ELSE <<>>) \o <<Incoming>>]_vars

C9_RejectWhenNoBucketAtPrice ==
    [][(/\ Returns("NewOrder") /\ unique_ids' /\ trade_active /\ CrossesCached
        /\ DOMAIN OppBefore # {}
        /\ action'.price \notin DOMAIN OppBefore)
         => res' = <<Reject(action'.user_id, action'.order_id), None>>]_vars

\* C10: with trade_active true, a crossing NewOrder at price P for which the
\* opposite bucket at P exists but holds no order of equal quantity returns
\* (Reject, no secondary); no trade is recorded and no resting order is
\* removed or altered.
C10_RejectWhenNoEqualQty ==
    [][(/\ Returns("NewOrder") /\ trade_active /\ CrossesCached
        /\ action'.price \in DOMAIN OppBefore
        /\ \A i \in 1..Len(OppBefore[action'.price]) :
              OppBefore[action'.price][i].qty # action'.qty)
         => /\ res' = <<Reject(action'.user_id, action'.order_id), None>>
            /\ trades' = trades
            /\ Resting(bids') = Resting(bids)
            /\ Resting(asks') = Resting(asks)]_vars

C10_Witness ==
    /\ unique_ids /\ Did("NewOrder") /\ trade_active
    /\ res = <<Reject(action.user_id, action.order_id), None>>
    /\ action.price \in DOMAIN LastOpp
    /\ LastOpp[action.price] # <<>>
    /\ \A i \in 1..Len(LastOpp[action.price]) :
          LastOpp[action.price][i].qty # action.qty

(* --------------------------- claims C11..C20 ---------------------------- *)
\* the cross test of the decision tree, step 1: the opposite table has a
\* bucket and the price crosses the cached opposite best
CrossFires == CrossesCached /\ DOMAIN OppBefore # {}

OwnBestBefore == IF action'.side = "B" THEN max_bid ELSE min_ask
OwnBestAfter == IF action'.side = "B" THEN max_bid' ELSE min_ask'
OppBestBefore == IF action'.side = "B" THEN min_ask ELSE max_bid
OppBestAfter == IF action'.side = "B" THEN min_ask' ELSE max_bid'

\* the own-side bucket at price p before the step, empty when there is none
OwnBucketBefore(p) == IF p \in DOMAIN OwnBefore THEN OwnBefore[p] ELSE <<>>

\* the own-side table after appending the incoming order to its bucket
OwnWithIncoming ==
    [p \in (DOMAIN OwnBefore) \cup {action'.price} |->
        IF p = action'.price THEN OwnBucketBefore(p) \o <<Incoming>>
        ELSE OwnBefore[p]]

RECURSIVE SumQty(_)
SumQty(bucket) ==
    IF bucket = <<>> THEN 0 ELSE bucket[1].qty + SumQty(Tail(bucket))

CancelStep == steps' = steps + 1 /\ action'.type = "CancelOrder"

\* the identifiers the CancelOrder of this step names
CancelId == <<action'.user_id, action'.order_id>>

\* some order at rest carries both identifiers of this step's CancelOrder
CancelMatches == CancelId \in Ids(asks) \cup Ids(bids)

\* the table without the orders carrying both identifiers
Without(col, user_id, order_id) ==
    [p \in DOMAIN col |->
        SelectSeq(col[p], LAMBDA o : ~(o.user_id = user_id /\ o.order_id = order_id))]

\* C13: a CancelOrder whose two identifiers are carried together by no
\* order at rest on either side returns (Reject{user_id, order_id}, no
\* secondary) and leaves both tables and both cached bests unchanged.
C13_CancelUnknownRejected ==
    [][(CancelStep /\ ~CancelMatches)
         => /\ ~aborted'
            /\ res' = <<Reject(action'.user_id, action'.order_id), None>>
            /\ bids' = bids /\ asks' = asks
            /\ max_bid' = max_bid /\ min_ask' = min_ask]_vars

\* the cancel names the order_id of an order at rest but another user_id
C13_Witness ==
    /\ unique_ids /\ Did("CancelOrder")
    /\ res = <<Reject(action.user_id, action.order_id), None>>
    /\ \E id \in Ids(asks) \cup Ids(bids) :
          id[2] = action.order_id /\ id[1] # action.user_id

\* C14: a CancelOrder whose identifiers match an order at rest (identifiers
\* unique among the orders at rest) is acknowledged with
\* Acknowledge{user_id, order_id}, removes that order and no other, and
\* leaves no order that an identical second CancelOrder could match.
C14_CancelAcknowledged ==
    [][(CancelStep /\ unique_ids /\ CancelMatches)
         => /\ ~aborted'
            /\ res'[1] = Acknowledge(action'.user_id, action'.order_id)
            /\ Resting(asks') = Resting(Without(asks, action'.user_id, action'.order_id))
            /\ Resting(bids') = Resting(Without(bids, action'.user_id, action'.order_id))
            /\ CancelId \notin Ids(asks') \cup Ids(bids')]_vars

\* the prices of the buckets of the table that hold an order carrying the
\* identifiers of this step's CancelOrder
MatchPrices(col) ==
    {p \in DOMAIN col : \E i \in 1..Len(col[p]) :
        col[p][i].user_id = action'.user_id /\ col[p][i].order_id = action'.order_id}

\* side, table, cached best and price of the order this step's CancelOrder
\* matches (cancel_order searches the asks first)
CancelSide == IF MatchPrices(asks) # {} THEN "S" ELSE "B"
CancelCol == IF CancelSide = "S" THEN asks ELSE bids
CancelBestBefore == IF CancelSide = "S" THEN min_ask ELSE max_bid
CancelBestAfter == IF CancelSide = "S" THEN min_ask' ELSE max_bid'
CancelPrice == CHOOSE p \in MatchPrices(CancelCol) : TRUE

\* the orders at rest on the cancelled order's side once it is removed
CancelRest == Resting(Without(CancelCol, action'.user_id, action'.order_id))

\* the best price among the buckets of a table, for the side
BestPrice(side, col) ==
    IF side = "B" THEN SetMax(DOMAIN col) ELSE SetMin(DOMAIN col)

\* C15: a CancelOrder that takes an order from a bucket that keeps other
\* members returns (Acknowledge, Best{side, price, qty}) with qty the sum of
\* the quantities of all orders remaining in the bucket when the bucket's
\* price is the cached best, and (Acknowledge, no secondary) when it is not.
C15_CancelInSharedBucket ==
    [][(/\ CancelStep /\ unique_ids /\ CancelMatches
        /\ Len(CancelCol[CancelPrice]) > 1)
         => /\ ~aborted'
            /\ res' = <<Acknowledge(action'.user_id, action'.order_id),
                        IF CancelPrice = CancelBestBefore
                        THEN [type |-> "Best", side |-> CancelSide,
                              price |-> CancelPrice,
                              qty |-> SumQty(CancelRest[CancelPrice])]
                        ELSE None>>]_vars

\* C16: a CancelOrder that removes the only order of the bucket at the
\* cached best while orders rest at other prices of the side makes the
\* cached best the best remaining price and returns (Acknowledge,
\* Best{side, new best, qty}) with qty the sum of the new best bucket.
C16_CancelBestLevel ==
    [][(/\ CancelStep /\ unique_ids /\ CancelMatches
        /\ Len(CancelCol[CancelPrice]) = 1
        /\ CancelPrice = CancelBestBefore
        /\ DOMAIN CancelRest # {})
         => /\ ~aborted'
            /\ CancelBestAfter = BestPrice(CancelSide, CancelRest)
            /\ res' = <<Acknowledge(action'.user_id, action'.order_id),
                        [type |-> "Best", side |-> CancelSide,
                         price |-> BestPrice(CancelSide, CancelRest),
                         qty |-> SumQty(CancelRest[BestPrice(CancelSide, CancelRest)])]>>]_vars

\* C17: a CancelOrder that removes the last order at rest on a side makes
\* the cached best of that side 0 and returns (Acknowledge,
\* Best{side, price 0, qty 0}).
C17_CancelLastOrder ==
    [][(/\ CancelStep /\ unique_ids /\ CancelMatches
        /\ DOMAIN CancelRest = {})
         => /\ ~aborted'
            /\ CancelBestAfter = 0
            /\ res' = <<Acknowledge(action'.user_id, action'.order_id),
                        [type |-> "Best", side |-> CancelSide,
                         price |-> 0, qty |-> 0]>>]_vars

\* C18: a CancelOrder of an order whose price is not the cached best of its
\* side returns (Acknowledge, no secondary) and leaves both cached bests
\* unchanged, whether or not the bucket becomes empty.
C18_CancelBehindBest ==
    [][(/\ CancelStep /\ CancelMatches
        /\ min_ask \notin MatchPrices(asks)
        /\ max_bid \notin MatchPrices(bids))
         => /\ ~aborted'
            /\ res' = <<Acknowledge(action'.user_id, action'.order_id), None>>
            /\ max_bid' = max_bid /\ min_ask' = min_ask]_vars

\* the cancel emptied a bucket behind the best, which is still at rest
C18_Witness ==
    /\ unique_ids /\ Did("CancelOrder")
    /\ res = <<Acknowledge(action.user_id, action.order_id), None>>
    /\ <<action.user_id, action.order_id>> \notin Ids(asks) \cup Ids(bids)
    /\ \/ DOMAIN Resting(bids) = {max_bid}
       \/ DOMAIN Resting(asks) = {min_ask}

\* C19: from any reachable state, Flush returns (absent, absent) and leaves
\* both tables without a bucket (bids() = asks() = 0), max_bid = min_ask = 0
\* and the ticker empty.
C19_FlushEmptiesBook ==
    [][(steps' = steps + 1 /\ action'.type = "Flush")
         => /\ ~aborted'
            /\ res' = <<[type |-> "None"], [type |-> "None"]>>
            /\ Cardinality(DOMAIN bids') = 0
            /\ Cardinality(DOMAIN asks') = 0
            /\ max_bid' = 0 /\ min_ask' = 0
            /\ ticker' = ""]_vars

\* a Flush of a book that has traded
C19_Witness ==
    /\ Did("Flush") /\ trades # <<>>
    /\ DOMAIN bids = {} /\ DOMAIN asks = {}
    /\ max_bid = 0 /\ min_ask = 0 /\ ticker = ""

\* the pair the book c gives to the order of this step's NewOrder
Resubmit(c) ==
    IF action'.side = "B"
    THEN new_order_logic(c.bids, c.asks, trades', c.max_bid, c.min_ask,
                         Incoming, Buy, trade_active).res
    ELSE new_order_logic(c.asks, c.bids, trades', c.min_ask, c.max_bid,
                         Incoming, Sell, trade_active).res

\* C20: from any reachable state, a NewOrder that rests followed at once by
\* the CancelOrder of that order returns the book to the state before the
\* NewOrder (orders at rest and cached bests), and the same NewOrder
\* submitted again gets the same pair.
C20_RestThenCancelRestores ==
    [][(/\ Returns("NewOrder") /\ unique_ids'
        /\ res'[1].type = "Acknowledge" /\ res'[2].type # "Trade")
         => \A u \in UsersWide, o \in OrderIds :
              (u = action'.user_id /\ o = action'.order_id) =>
                \A ha \in get_order_index(asks, u, o)',
                   hb \in get_order_index(bids, u, o)' :
                   LET c == cancel_order(u, o, ha, hb)'
                   IN /\ ~c.panic
                      /\ c.res[1] = Acknowledge(u, o)
                      /\ Resting(c.bids) = Resting(bids)
                      /\ Resting(c.asks) = Resting(asks)
                      /\ c.max_bid = max_bid
                      /\ c.min_ask = min_ask
                      /\ Resubmit(c) = res']_vars

(* --------------------------- claims C21..C30 ---------------------------- *)

\* C21: after every action and for each side, the cached best is 0 exactly
\* when the side holds no order at rest, and greater than 0 exactly when it
\* holds at least one.
C21_BestZeroIffEmpty ==
    (unique_ids /\ ~aborted)
        => /\ (max_bid = 0) <=> ~HasOrders(bids)
           /\ (min_ask = 0) <=> ~HasOrders(asks)
           /\ max_bid >= 0 /\ min_ask >= 0

\* C22: ticker() is the string passed to OrderBook::new after any sequence
\* of NewOrder and CancelOrder actions, whatever symbol the orders carry;
\* only Flush changes it, to the empty string, and it stays empty under all
\* later actions.
C22_TickerFrame ==
    [][/\ (steps' = steps + 1 /\ action'.type \in {"NewOrder", "CancelOrder"})
            => ticker' = ticker
       /\ (steps' = steps + 1 /\ action'.type = "Flush") => ticker' = ""
       /\ ticker' \in Tickers \cup {""}
       /\ ticker = "" => ticker' = ""]_vars

\* an order rests after a Flush and the ticker is still empty
C22_Witness ==
    /\ Did("NewOrder") /\ ticker = ""
    /\ HasOrders(bids) \/ HasOrders(asks)

\* the outcomes of cancel_order over the orders in which get_order_index
\* may visit the keys of the two tables
CancelOutcomes(user_id, order_id) ==
    {cancel_order(user_id, order_id, ha, hb) :
        ha \in get_order_index(asks, user_id, order_id),
        hb \in get_order_index(bids, user_id, order_id)}

\* C23: with (user_id, order_id) unique among the orders at rest, the pair
\* an action returns (and the book it leaves) does not depend on the
\* iteration order of the price tables: new_order and flush are functions of
\* the book, and every CancelOrder has one outcome.
C23_Deterministic ==
    (unique_ids /\ ~aborted)
        => \A user_id \in UsersWide, order_id \in OrderIds :
              Cardinality(CancelOutcomes(user_id, order_id)) = 1

\* two buckets of one side hold orders, so that the keys can be visited in
\* two orders, and a cancel has just been served from them
C23_Witness ==
    /\ unique_ids /\ Did("CancelOrder")
    /\ res[1] = Acknowledge(action.user_id, action.order_id)
    /\ \/ HasOrders(asks) /\ res[2].type = "Best" /\ res[2].side = "S"
       \/ HasOrders(bids) /\ res[2].type = "Best" /\ res[2].side = "B"

\* C24: in every returned pair the primary, when present, is an
\* Acknowledge or a Reject carrying the user_id and order_id of the action;
\* the secondary, when present, is a Best or a Trade, and it is present only
\* when the primary is an Acknowledge.
C24_PairShape ==
    ~aborted
        => /\ res[1].type \in {"None", "Acknowledge", "Reject"}
           /\ res[1].type # "None"
                => /\ action.type \in {"NewOrder", "CancelOrder"}
                   /\ res[1].user_id = action.user_id
                   /\ res[1].order_id = action.order_id
           /\ res[2].type \in {"None", "Best", "Trade"}
           /\ res[2].type # "None" => res[1].type = "Acknowledge"

\* a pair with a Trade as secondary, answering the order of user 2
C24_Witness ==
    /\ Did("NewOrder") /\ action.user_id = 2
    /\ res[1] = [type |-> "Acknowledge", user_id |-> 2, order_id |-> action.order_id]
    /\ res[2].type = "Trade"

\* C25: when the book is constructed with trade_active = false, the trade
\* log stays empty and no Trade response is returned, for every sequence of
\* actions.
C25_NoTradeWhenOff ==
    ~trade_active => (trades = <<>> /\ res[2].type # "Trade")

\* with trading off, an order that meets an order of its price and quantity
\* on the opposite side is rejected and nothing is logged
C25_Witness ==
    /\ unique_ids /\ Did("NewOrder") /\ ~trade_active
    /\ res[1].type = "Reject" /\ trades = <<>>
    /\ action.price \in DOMAIN LastOpp
    /\ \E i \in 1..Len(LastOpp[action.price]) :
          LastOpp[action.price][i].qty = action.qty

\* C26: the trade log is append-only: an action that returns a Trade
\* appends one record with the fields of that response, and no other action
\* (rejected or resting NewOrder, CancelOrder, Flush) adds, removes or
\* changes a record.
C26_TradeLogAppendOnly ==
    [][steps' = steps + 1
         => IF ~aborted' /\ res'[2].type = "Trade"
            THEN trades' = Append(trades,
                     [price |-> res'[2].price, qty |-> res'[2].qty,
                      buyer_id |-> res'[2].buyer_id,
                      seller_id |-> res'[2].seller_id,
                      buyer_order_id |-> res'[2].buyer_order_id,
                      seller_order_id |-> res'[2].seller_order_id])
            ELSE trades' = trades]_vars

\* a second Trade has been appended after the first
C26_Witness ==
    /\ unique_ids /\ Did("NewOrder")
    /\ res[2].type = "Trade" /\ Len(trades) = 2
    /\ trades[2].buyer_id = res[2].buyer_id
    /\ trades[1] # trades[2]

\* the positions (price, index) the table holds an order at
Slots(col) == UNION {{<<p, i>> : i \in 1..Len(col[p])} : p \in DOMAIN col}

\* every order of the table is in the bucket of its own price
KeyedByPrice(col) == \A sl \in Slots(col) : col[sl[1]][sl[2]].price = sl[1]

\* the identifiers of the order at rest a Trade response names
MatchedId ==
    IF action'.side = "B"
    THEN <<res'[2].seller_id, res'[2].seller_order_id>>
    ELSE <<res'[2].buyer_id, res'[2].buyer_order_id>>

\* C27: each order at rest is in one bucket, on the side it was submitted
\* on and under the key of its own price; an order is at rest exactly when
\* its NewOrder was acknowledged without a Trade and it has not since been
\* cancelled, matched or flushed (stated step by step on the identifiers at
\* rest on each side, for identifiers unique among the orders at rest).
C27_RestingOrders ==
    [][(steps' = steps + 1 /\ ~aborted' /\ unique_ids')
         => /\ KeyedByPrice(bids') /\ KeyedByPrice(asks')
            /\ Cardinality(Slots(bids')) + Cardinality(Slots(asks'))
                  = Cardinality(Ids(bids') \cup Ids(asks'))
            /\ Ids(bids') \cap Ids(asks') = {}
            /\ CASE action'.type = "NewOrder" /\ res'[1].type = "Acknowledge"
                       /\ res'[2].type # "Trade"
                      -> /\ Ids(OwnAfter) = Ids(OwnBefore)
                                \cup {<<action'.user_id, action'.order_id>>}
                         /\ Ids(OppAfter) = Ids(OppBefore)
                         /\ \E i \in 1..Len(OwnAfter[action'.price]) :
                               OwnAfter[action'.price][i] = Incoming
                 [] action'.type = "NewOrder" /\ res'[2].type = "Trade"
                      -> /\ Ids(OwnAfter) = Ids(OwnBefore)
                         /\ MatchedId \in Ids(OppBefore)
                         /\ Ids(OppAfter) = Ids(OppBefore) \ {MatchedId}
                 [] action'.type = "CancelOrder" /\ res'[1].type = "Acknowledge"
                      -> /\ CancelMatches
                         /\ Ids(bids') = Ids(bids) \ {CancelId}
                         /\ Ids(asks') = Ids(asks) \ {CancelId}
                 [] action'.type = "Flush"
                      -> Ids(bids') = {} /\ Ids(asks') = {}
                 [] OTHER
                      -> Ids(bids') = Ids(bids) /\ Ids(asks') = Ids(asks)]_vars

\* one of two orders at rest has been cancelled and the other is still in
\* the bucket of its price
C27_Witness ==
    /\ unique_ids /\ Did("CancelOrder")
    /\ res[1] = Acknowledge(action.user_id, action.order_id)
    /\ Cardinality(Ids(bids) \cup Ids(asks)) = 1
    /\ <<action.user_id, action.order_id>> \notin Ids(bids) \cup Ids(asks)
    /\ trades = <<>>

\* the bucket of the table at price p, empty when there is none
BucketAt(col, p) == IF p \in DOMAIN col THEN col[p] ELSE <<>>

\* bucket a is bucket b without one of its orders, the others in their order
RemovedOne(b, a) ==
    \E i \in 1..Len(b) :
        a = [j \in 1..(Len(b) - 1) |-> IF j < i THEN b[j] ELSE b[j + 1]]

\* the prices at which the bucket of the table differs over this step
Changed(before, after) ==
    {p \in (DOMAIN before) \cup (DOMAIN after) :
        BucketAt(after, p) # BucketAt(before, p)}

\* C28: within every bucket the orders at rest are kept in the order in
\* which they were accepted: a new order is appended at the end, and a
\* cancel or a trade that removes one order does not change the relative
\* order of the remaining orders of that bucket or of any other bucket.
C28_BucketOrderKept ==
    [][(steps' = steps + 1 /\ ~aborted' /\ action'.type # "Flush")
         => /\ Cardinality(Changed(bids, bids') \cup Changed(asks, asks')) <= 1
            /\ Changed(bids, bids') = {} \/ Changed(asks, asks') = {}
            /\ \A p \in Changed(bids, bids') :
                  \/ /\ action'.type = "NewOrder" /\ action'.side = "B"
                     /\ action'.price = p
                     /\ bids'[p] = BucketAt(bids, p) \o <<Incoming>>
                  \/ RemovedOne(BucketAt(bids, p), BucketAt(bids', p))
            /\ \A p \in Changed(asks, asks') :
                  \/ /\ action'.type = "NewOrder" /\ action'.side = "S"
                     /\ action'.price = p
                     /\ asks'[p] = BucketAt(asks, p) \o <<Incoming>>
                  \/ RemovedOne(BucketAt(asks, p), BucketAt(asks', p))]_vars

\* the order of user 2 has been appended behind the order of user 1
C28_Witness ==
    /\ unique_ids /\ Did("NewOrder") /\ action.user_id = 2
    /\ action.side = "B" /\ action.price \in DOMAIN bids
    /\ Len(bids[action.price]) = 2
    /\ bids[action.price][1].user_id = 1
    /\ bids[action.price][2] =
          Order_new(action.user_id, action.price, action.qty, action.order_id)

\* C29: every order at rest has a strictly positive price and a strictly
\* positive quantity, whatever non-negative numbers the NewOrder actions
\* carry (a NewOrder with price 0 or quantity 0 never comes to rest).
C29_RestingPositive ==
    (unique_ids /\ ~aborted)
        => /\ \A sl \in Slots(bids) :
                 bids[sl[1]][sl[2]].price > 0 /\ bids[sl[1]][sl[2]].qty > 0
           /\ \A sl \in Slots(asks) :
                 asks[sl[1]][sl[2]].price > 0 /\ asks[sl[1]][sl[2]].qty > 0

\* the line numbers carried by the entries of a queue
LineNumbers(q) == [i \in 1..Len(q) |-> q[i].line]

\* the numbers of the lines among the first n that carry an action, ascending
RECURSIVE ActionLines(_)
ActionLines(n) ==
    IF n = 0 THEN <<>>
    ELSE IF lines[n].kind \in {"N", "C", "F"}
         THEN Append(ActionLines(n - 1), n)
         ELSE ActionLines(n - 1)

\* C30: under every interleaving of the three tasks, the actions are handed
\* to the book in the order the producer read them, and the pairs are
\* printed in that order, one pair per action, none lost and none
\* duplicated: the actions handed to the book, followed by those waiting in
\* the queue, are the actions read; the pairs printed, followed by those
\* waiting and the one process holds, are the pairs of the actions handed
\* to the book.
C30_PipelineOrder ==
    unique_ids
        => /\ applied \o LineNumbers(prod) = ActionLines(read)
           /\ LineNumbers(printed) \o LineNumbers(resp)
                \o (IF response = None THEN <<>> ELSE <<response.line>>)
                  = applied

(* --------------------------- claims C31..C39 ---------------------------- *)

\* tokio::join! of main has the three handles: each task has returned or
\* panicked
MainReturned ==
    /\ produce_pc \in {"finished", "panicked", "panicked_locked"}
    /\ process_pc \in {"finished", "panicked"}
    /\ show_pc = "finished"

\* C31: given a readable input file, the program eventually terminates:
\* the producer reads every line, the actions are processed, the responses
\* printed, the process and show_results tasks finish and main returns.
C31_MainReturns == <>MainReturned

\* C32: a line that matches none of the three line shapes, a line that
\* starts with N without the fields of an order included, is dropped
\* silently: the producer's step over it pushes no action and no response
\* and leaves the producer reading the following lines.
C32_MalformedDropped ==
    [][(/\ produce_pc = "running"
        /\ read < Len(lines)
        /\ lines[read + 1].kind \in {"N_malformed", "other"}
        /\ read' # read \/ produce_pc' # produce_pc)
          => /\ read' = read + 1
             /\ produce_pc' = "running"
             /\ prod' = prod
             /\ resp' = resp]_all_vars

bids_levels(col) == Cardinality(DOMAIN col)

\* C34: a NewOrder that is rejected leaves the book as it was: the same
\* orders at rest in the same buckets, the same max_bid and min_ask, the
\* same trade log and the same numbers of price levels for bids() and
\* asks().
C34_RejectLeavesBook ==
    [][(/\ Returns("NewOrder") /\ unique_ids'
        /\ res' = <<Reject(action'.user_id, action'.order_id), None>>)
          => /\ Resting(bids') = Resting(bids)
             /\ Resting(asks') = Resting(asks)
             /\ max_bid' = max_bid /\ min_ask' = min_ask
             /\ trades' = trades
             /\ bids_levels(bids') = bids_levels(bids)
             /\ bids_levels(asks') = bids_levels(asks)]_vars

\* the best price among the orders at rest on the side opposite to the
\* NewOrder of this step, after the step, 0 when there is none
OppRestingBestAfter ==
    IF action'.side = "B"
    THEN keys_min_or_0(Resting(asks'))
    ELSE keys_max_or_0(Resting(bids'))

\* C35: after a NewOrder that returns (Acknowledge, Trade), one order at
\* rest has been removed, from the opposite bucket at the incoming price;
\* the incoming order rests on neither side; the own-side table and the own
\* cached best are unchanged; and when the matched bucket became empty its
\* key is deleted and the opposite cached best is the best price among the
\* opposite orders still at rest, 0 if there is none.
C35_TradeFrame ==
    [][(/\ Returns("NewOrder") /\ unique_ids'
        /\ res'[1].type = "Acknowledge" /\ res'[2].type = "Trade")
          => /\ RemovedOne(BucketAt(OppBefore, action'.price),
                          BucketAt(OppAfter, action'.price))
             /\ \A p \in (DOMAIN OppBefore \cup DOMAIN OppAfter) \ {action'.price} :
                   BucketAt(OppAfter, p) = BucketAt(OppBefore, p)
             /\ OwnAfter = OwnBefore
             /\ OwnBestAfter = OwnBestBefore
             /\ Len(BucketAt(OppBefore, action'.price)) = 1
                  => /\ action'.price \notin DOMAIN OppAfter
                     /\ OppBestAfter = OppRestingBestAfter]_vars

\* C36: when several orders at rest in the opposite bucket at the price of
\* the incoming order have its quantity, the trade consumes the one that
\* was inserted earliest; the orders of another quantity ahead of it in the
\* bucket are skipped and stay in place, as do the orders behind it.
C36_EarliestEqualQty ==
    [][(/\ Returns("NewOrder")
        /\ res'[1].type = "Acknowledge" /\ res'[2].type = "Trade")
          => LET b == BucketAt(OppBefore, action'.price)
             IN \E k \in 1..Len(b) :
                  /\ b[k].qty = action'.qty
                  /\ \A j \in 1..(k - 1) : b[j].qty # action'.qty
                  /\ MatchedId = <<b[k].user_id, b[k].order_id>>
                  /\ BucketAt(OppAfter, action'.price)
                       = [j \in 1..(Len(b) - 1) |->
                            IF j < k THEN b[j] ELSE b[j + 1]]]_vars

\* a trade has left in the bucket an order of the traded quantity: the
\* bucket held two orders of that quantity and the later one stays
C36_Witness ==
    /\ unique_ids /\ Did("NewOrder") /\ res[2].type = "Trade"
    /\ \E i \in 1..Len(BucketAt(LastOpp, action.price)) :
          LET o == BucketAt(LastOpp, action.price)[i]
          IN /\ o.qty = action.qty
             /\ <<o.user_id, o.order_id>>
                  # (IF action.side = "B"
                     THEN <<res[2].seller_id, res[2].seller_order_id>>
                     ELSE <<res[2].buyer_id, res[2].buyer_order_id>>)

\* the actions a book is fed
UserActions ==
    [type : {"NewOrder"}, user_id : Users, price : Prices, qty : Qtys,
     side : SideStrings, order_id : OrderIds]
    \cup [type : {"CancelOrder"}, user_id : Users, order_id : OrderIds]
    \cup {[type |-> "Flush"]}

\* the book of the state, and a book as OrderBook::new leaves it
ThisBook ==
    [bids |-> bids, asks |-> asks, max_bid |-> max_bid, min_ask |-> min_ask,
     trades |-> trades, trade_active |-> trade_active]

FreshBook(active) ==
    [bids |-> EmptyMap, asks |-> EmptyMap, max_bid |-> 0, min_ask |-> 0,
     trades |-> <<>>, trade_active |-> active]

\* new_user_action on a book given as a value: the outcomes of the action,
\* each the book it leaves, the pair it returns and whether it panicked
BookAction(book, act) ==
    IF act.type = "NewOrder"
    THEN LET order == Order_new(act.user_id, act.price, act.qty, act.order_id)
         IN IF Side_new(act.side) = Buy
            THEN LET r == new_order_logic(book.bids, book.asks, book.trades,
                                          book.max_bid, book.min_ask, order,
                                          Buy, book.trade_active)
                 IN {[book |-> [book EXCEPT !.bids = r.col_insert,
                                            !.asks = r.col_search,
                                            !.trades = r.trades,
                                            !.max_bid = r.best,
                                            !.min_ask = r.best_opposite],
                      res |-> r.res, panic |-> panic] :
                     panic \in (IF r.overflow THEN BOOLEAN ELSE {FALSE})}
            ELSE LET r == new_order_logic(book.asks, book.bids, book.trades,
                                          book.min_ask, book.max_bid, order,
                                          Sell, book.trade_active)
                 IN {[book |-> [book EXCEPT !.asks = r.col_insert,
                                            !.bids = r.col_search,
                                            !.trades = r.trades,
                                            !.min_ask = r.best,
                                            !.max_bid = r.best_opposite],
                      res |-> r.res, panic |-> panic] :
                     panic \in (IF r.overflow THEN BOOLEAN ELSE {FALSE})}
    ELSE IF act.type = "CancelOrder"
    THEN {LET a == cancel_order_logic(book.asks, Sell, act.user_id, act.order_id,
                                      book.min_ask, ha)
              b == cancel_order_logic(book.bids, Buy, act.user_id, act.order_id,
                                      book.max_bid, hb)
          IN IF a.panic \/ a.res[1].type = "Acknowledge"
             THEN [book |-> [book EXCEPT !.asks = a.col, !.min_ask = a.best],
                   res |-> a.res, panic |-> a.panic]
             ELSE [book |-> [book EXCEPT !.asks = a.col, !.min_ask = a.best,
                                         !.bids = b.col, !.max_bid = b.best],
                   res |-> b.res, panic |-> b.panic] :
          ha \in get_order_index(book.asks, act.user_id, act.order_id),
          hb \in get_order_index(book.bids, act.user_id, act.order_id)}
    ELSE {[book |-> [book EXCEPT !.bids = EmptyMap, !.asks = EmptyMap,
                                 !.max_bid = 0, !.min_ask = 0],
           res |-> <<None, None>>, panic |-> FALSE]}

\* the response pairs a book may give to the action a1 followed by a2, a
\* panic ending the sequence
Answers(book, a1, a2) ==
    UNION {IF o1.panic
           THEN {<<"panic">>}
           ELSE {IF o2.panic THEN <<o1.res, "panic">> ELSE <<o1.res, o2.res>> :
                 o2 \in BookAction(o1.book, a2)} :
           o1 \in BookAction(book, a1)}

\* C37: after a Flush the book answers the actions that follow with the
\* response pairs a freshly constructed book with the same trade_active
\* gives: nothing from before the Flush, the trade log included, has a part
\* in a later response.
C37_FlushedAnswersAsFresh ==
    Did("Flush")
        => \A a1, a2 \in UserActions :
             Answers(ThisBook, a1, a2) = Answers(FreshBook(trade_active), a1, a2)

\* a book that held an order and has traded is flushed
C37_Witness ==
    /\ Did("Flush") /\ unique_ids /\ steps = MaxSteps
    /\ Len(trades) = 1

\* C38: the quantity carried by the Best response of a NewOrder is the
\* arithmetic sum of the quantities in the bucket for all quantities of
\* the width of u32: the accumulation neither wraps nor aborts when the
\* quantities at rest at one price sum to more than u32::MAX.
C38_BestSumExact ==
    [][(steps' = steps + 1 /\ action'.type = "NewOrder" /\ unique_ids')
         => /\ ~aborted'
            /\ res'[2].type = "Best"
                 => res'[2].qty = SumQty(OwnAfter[action'.price])]_vars

\* C39: under fair scheduling of the three tasks, every action pushed by
\* the producer is eventually removed from the queue and applied to the
\* book, and its response pair is eventually printed; no task waits forever
\* for a lock held by another: from some point on the actions handed to
\* the book and the pairs printed are those of all the action lines read.
C39_PipelineLive ==
    <>[](/\ applied = ActionLines(read)
         /\ LineNumbers(printed) = ActionLines(read))

====
